---- MODULE Spec2Model ----
(***************************************************************************)
(* Workflow orchestrator of the data-analyst chat                          *)
(* (src/src/orchestrator_agent.py): the WorkflowContext held by an         *)
(* OrchestratorAgent and the methods that read and change it.              *)
(***************************************************************************)
EXTENDS Integers, Sequences, FiniteSets, TLC

\* ------------------------------------------------------------------ bounds
\* Longest step_history the model lets move_to_next_step build.
MaxHist == 4
\* Longest tool_calls log the model lets add_tool_call build: when any caller
\* drives the orchestrator (every decision string in every step, so the log
\* matters only through the tags in it), and when the decisions drive it (a
\* session that records a call in each of the five steps needs five).
MaxCalls == 1
MaxDrivenCalls == 5
\* Longest step_history and tool_calls log of the contexts whose decisions are
\* compared with one another.
MaxReplayHist == 3
MaxReplayCalls == 2
\* Most agent runs the chat creates in one behaviour.
MaxRuns == 6
\* Longest step_history of the contexts given to to_dict.
MaxCodecHist == 2

\* ------------------------------------------------------------- input sets
UserQueries == {"q1", "q2"}
ToolNames == {"read_data", "find_invoices"}
DriverToolNames == {"read_data"}
\* add_tool_call's tool_data argument: the default None, or a non-empty dict.
NoneData == "None"
EmptyDict == "{}"
ToolPayloads == {NoneData, "{rows: 1}"}

\* ------------------------------------------------------------ WorkflowStep
\* An Enum member has a name and a value; the value is the string tag.
BUILD_QUERY == [name |-> "BUILD_QUERY", value |-> "build_query"]
VALIDATE_QUERY == [name |-> "VALIDATE_QUERY", value |-> "validate_query"]
EXECUTE_QUERY == [name |-> "EXECUTE_QUERY", value |-> "execute_query"]
VERIFY_RESULTS == [name |-> "VERIFY_RESULTS", value |-> "verify_results"]
FORMAT_RESULTS == [name |-> "FORMAT_RESULTS", value |-> "format_results"]
WorkflowStep == {BUILD_QUERY, VALIDATE_QUERY, EXECUTE_QUERY, VERIFY_RESULTS, FORMAT_RESULTS}

\* The decision strings analyze_and_decide_next returns and move_to_next_step
\* tests for, and one string neither of them knows.
AdvanceDecisions == {"move_to_validate", "move_to_execute", "move_to_verify", "move_to_format", "move_to_build_query"}
Decisions == AdvanceDecisions \cup {"workflow_complete", "retry_current", "unknown_decision"}

\* self.context = None
None == [none |-> TRUE]

VARIABLES
    context,   \* OrchestratorAgent.context: None or a WorkflowContext
    last,      \* the call made last: its name, its arguments, what it returned
    advances,  \* advance decisions applied since the last start_workflow
    session,   \* st.session_state of the chat: stage, run_id, processor, ...
    runtime,   \* the agent runtime: runs created, status of the newest run
    run_start  \* the orchestrator's context when the newest run was created

vars == <<context, last, advances, session, runtime, run_start>>
\* What a call on the orchestrator alone leaves as it is.
chat == <<session, runtime, run_start>>

\* ---------------------------------------------------------------- methods
\* WorkflowStep(value): the member with that value; ValueError if there is none.
ValueError == [raised |-> "ValueError"]
StepOfValue(v) ==
    IF \E s \in WorkflowStep : s.value = v
    THEN CHOOSE s \in WorkflowStep : s.value = v
    ELSE ValueError

\* Mutant: the dict carries the members' names.
to_dict_names(ctx) ==
    [user_query |-> ctx.user_query,
     current_step |-> ctx.current_step.name,
     step_history |-> [i \in 1..Len(ctx.step_history) |-> ctx.step_history[i].name],
     shared_data |-> ctx.shared_data,
     tool_calls |-> ctx.tool_calls]

\* WorkflowContext.to_dict
to_dict(ctx) ==
    [user_query |-> ctx.user_query,
     current_step |-> ctx.current_step.value,
     step_history |-> [i \in 1..Len(ctx.step_history) |-> ctx.step_history[i].value],
     shared_data |-> ctx.shared_data,
     tool_calls |-> ctx.tool_calls]

\* WorkflowContext.from_dict: a value that names no member raises; the two
\* keys read with data.get may be absent.
from_dict(data) ==
    IF \/ StepOfValue(data.current_step) = ValueError
       \/ \E i \in 1..Len(data.step_history) : StepOfValue(data.step_history[i]) = ValueError
    THEN ValueError
    ELSE [user_query |-> data.user_query,
          current_step |-> StepOfValue(data.current_step),
          step_history |-> [i \in 1..Len(data.step_history) |-> StepOfValue(data.step_history[i])],
          shared_data |-> IF "shared_data" \in DOMAIN data THEN data.shared_data ELSE EmptyDict,
          tool_calls |-> IF "tool_calls" \in DOMAIN data THEN data.tool_calls ELSE << >>]

\* `tool_data or {}`: None and the empty dict are both falsy.
OrEmptyDict(tool_data) == IF tool_data \in {NoneData, EmptyDict} THEN EmptyDict ELSE tool_data

\* Mutant: a new workflow inherits the tool-call log of the one it replaces.
start_workflow_keeps_log(ctx, user_query) ==
    [user_query |-> user_query,
     current_step |-> BUILD_QUERY,
     step_history |-> << >>,
     shared_data |-> EmptyDict,
     tool_calls |-> IF ctx = None THEN << >> ELSE ctx.tool_calls]

start_workflow(ctx, user_query) ==
    [user_query |-> user_query,
     current_step |-> BUILD_QUERY,
     step_history |-> << >>,
     shared_data |-> EmptyDict,
     tool_calls |-> << >>]

\* Mutant: the record is tagged with the member's name, not with its value.
add_tool_call_tags_name(ctx, tool_name, tool_data) ==
    IF ctx = None THEN ctx
    ELSE [ctx EXCEPT !.tool_calls =
            Append(@, [name |-> tool_name,
                       step |-> ctx.current_step.name,
                       data |-> OrEmptyDict(tool_data)])]

\* Mutant: a call recorded before any start opens a workflow of its own.
add_tool_call_autostarts(ctx, tool_name, tool_data) ==
    LET c == IF ctx = None THEN start_workflow(ctx, "") ELSE ctx
    IN [c EXCEPT !.tool_calls =
            Append(@, [name |-> tool_name,
                       step |-> c.current_step.value,
                       data |-> OrEmptyDict(tool_data)])]

add_tool_call(ctx, tool_name, tool_data) ==
    IF ctx = None THEN ctx
    ELSE [ctx EXCEPT !.tool_calls =
            Append(@, [name |-> tool_name,
                       step |-> ctx.current_step.value,
                       data |-> OrEmptyDict(tool_data)])]

\* [tc for tc in tool_calls if tc.get('step') == current_step.value]
current_step_tools(ctx) ==
    SelectSeq(ctx.tool_calls, LAMBDA tc : tc.step = ctx.current_step.value)

\* Mutant: the build branch gives up on a step without a tool call.
decide_build_query_gives_up(ctx) ==
    IF Len(current_step_tools(ctx)) > 0 THEN "move_to_validate" ELSE "workflow_complete"

\* The branch of analyze_and_decide_next for each current step.
decide_build_query(ctx) ==
    IF Len(current_step_tools(ctx)) > 0 THEN "move_to_validate" ELSE "retry_current"

decide_validate_query(ctx) ==
    IF Len(current_step_tools(ctx)) > 0 THEN "move_to_execute" ELSE "retry_current"

\* Mutant: the execute branch jumps over the verification step.
decide_execute_query_skips_verify(ctx) ==
    IF Len(current_step_tools(ctx)) > 0 THEN "move_to_format" ELSE "retry_current"

decide_execute_query(ctx) ==
    IF Len(current_step_tools(ctx)) > 0 THEN "move_to_verify" ELSE "retry_current"

\* Mutant: the verify branch looks at the calls of its own step only.
decide_verify_results_own_calls(ctx) ==
    IF Len(current_step_tools(ctx)) > 0 THEN "move_to_format" ELSE "retry_current"

\* Mutant: without calls, the verify branch asks whether the execute step is
\* in the history, not how long the history is.
decide_verify_results_needs_execute(ctx) ==
    IF Len(ctx.tool_calls) > 0 THEN "move_to_format"
    ELSE IF \E i \in 1..Len(ctx.step_history) : ctx.step_history[i] = EXECUTE_QUERY
         THEN "move_to_format"
    ELSE "retry_current"

decide_verify_results(ctx) ==
    IF Len(ctx.tool_calls) > 0 THEN "move_to_format"
    ELSE IF Len(ctx.step_history) >= 3 THEN "move_to_format"
    ELSE "retry_current"

\* Mutant: the format branch completes one history entry early.
decide_format_results_early(ctx) ==
    IF Len(ctx.tool_calls) > 0 THEN "workflow_complete"
    ELSE IF Len(ctx.step_history) >= 3 THEN "workflow_complete"
    ELSE "retry_current"

decide_format_results(ctx) ==
    IF Len(ctx.tool_calls) > 0 THEN "workflow_complete"
    ELSE IF Len(ctx.step_history) >= 4 THEN "workflow_complete"
    ELSE "retry_current"

analyze_and_decide_next(ctx) ==
    IF ctx = None THEN "no_workflow"
    ELSE IF ctx.current_step = BUILD_QUERY THEN decide_build_query(ctx)
    ELSE IF ctx.current_step = VALIDATE_QUERY THEN decide_validate_query(ctx)
    ELSE IF ctx.current_step = EXECUTE_QUERY THEN decide_execute_query(ctx)
    ELSE IF ctx.current_step = VERIFY_RESULTS THEN decide_verify_results(ctx)
    ELSE IF ctx.current_step = FORMAT_RESULTS THEN decide_format_results(ctx)
    ELSE "retry_current"

\* Mutant: the history records the step entered, not the step left.
MoveTo_appends_entered(ctx, step) ==
    [ctx EXCEPT !.step_history = Append(@, step), !.current_step = step]

\* Mutant: the history keeps only the step just left.
MoveTo_overwrites_history(ctx, step) ==
    [ctx EXCEPT !.step_history = <<ctx.current_step>>, !.current_step = step]

\* Mutant: the tool-call log is reset when a step is left.
MoveTo_resets_log(ctx, step) ==
    [ctx EXCEPT !.step_history = Append(@, ctx.current_step), !.current_step = step,
                !.tool_calls = << >>]

\* One branch of move_to_next_step: append the step being left, enter the next.
MoveTo(ctx, step) ==
    [ctx EXCEPT !.step_history = Append(@, ctx.current_step), !.current_step = step]

\* Mutant: the move to the report step forgets to append to the history.
move_to_next_step_format_unrecorded(ctx, decision) ==
    IF ctx = None THEN ctx
    ELSE IF decision = "move_to_validate" THEN MoveTo(ctx, VALIDATE_QUERY)
    ELSE IF decision = "move_to_execute" THEN MoveTo(ctx, EXECUTE_QUERY)
    ELSE IF decision = "move_to_verify" THEN MoveTo(ctx, VERIFY_RESULTS)
    ELSE IF decision = "move_to_format" THEN [ctx EXCEPT !.current_step = FORMAT_RESULTS]
    ELSE IF decision = "move_to_build_query" THEN MoveTo(ctx, BUILD_QUERY)
    ELSE ctx

\* Mutant: a retry sends the workflow back to its first step.
move_to_next_step_retry_restarts(ctx, decision) ==
    IF ctx = None THEN ctx
    ELSE IF decision = "move_to_validate" THEN MoveTo(ctx, VALIDATE_QUERY)
    ELSE IF decision = "move_to_execute" THEN MoveTo(ctx, EXECUTE_QUERY)
    ELSE IF decision = "move_to_verify" THEN MoveTo(ctx, VERIFY_RESULTS)
    ELSE IF decision = "move_to_format" THEN MoveTo(ctx, FORMAT_RESULTS)
    ELSE IF decision = "move_to_build_query" THEN MoveTo(ctx, BUILD_QUERY)
    ELSE IF decision = "retry_current" THEN [ctx EXCEPT !.current_step = BUILD_QUERY]
    ELSE ctx

move_to_next_step(ctx, decision) ==
    IF ctx = None THEN ctx
    ELSE IF decision = "move_to_validate" THEN MoveTo(ctx, VALIDATE_QUERY)
    ELSE IF decision = "move_to_execute" THEN MoveTo(ctx, EXECUTE_QUERY)
    ELSE IF decision = "move_to_verify" THEN MoveTo(ctx, VERIFY_RESULTS)
    ELSE IF decision = "move_to_format" THEN MoveTo(ctx, FORMAT_RESULTS)
    ELSE IF decision = "move_to_build_query" THEN MoveTo(ctx, BUILD_QUERY)
    ELSE IF decision = "workflow_complete" THEN ctx
    ELSE IF decision = "retry_current" THEN ctx
    ELSE ctx

\* Mutant: completion waits for as many history entries as there are steps.
is_workflow_complete_after_five(ctx) ==
    ctx = None \/ Len(ctx.step_history) >= 5

\* Whether move_to_next_step ends by raising: none of its branches raises and
\* the chain of tests has no closing else, so it returns for every string.
move_to_next_step_raises(ctx, decision) == FALSE

is_workflow_complete(ctx) ==
    ctx = None \/ Len(ctx.step_history) >= 4

\* [step.value for step in self.context.step_history]
StepValues(steps) == [i \in 1..Len(steps) |-> steps[i].value]

\* Mutant: the count is of the calls of the current step only.
get_workflow_status_counts_step(ctx) ==
    IF ctx = None THEN [status |-> "no_workflow"]
    ELSE [status |-> "active",
          current_step |-> ctx.current_step.value,
          step_history |-> StepValues(ctx.step_history),
          total_tool_calls |-> Len(current_step_tools(ctx)),
          is_complete |-> is_workflow_complete(ctx)]

get_workflow_status(ctx) ==
    IF ctx = None THEN [status |-> "no_workflow"]
    ELSE [status |-> "active",
          current_step |-> ctx.current_step.value,
          step_history |-> StepValues(ctx.step_history),
          total_tool_calls |-> Len(ctx.tool_calls),
          is_complete |-> is_workflow_complete(ctx)]

\* Each prompt is an f-string: a fixed opening, the user's query, the fixed
\* task text of the step.
_get_build_query_prompt(ctx) ==
    <<"You are a data analyst for RentReady system. User asked: ", ctx.user_query,
      "CURRENT TASK: BUILD PRELIMINARY SQL QUERY (Step 1 of 4)">>
_get_validate_query_prompt(ctx) ==
    <<"You are a data analyst. User asked: ", ctx.user_query,
      "CURRENT TASK: QUERY TESTING AND REFINEMENT (Step 2 of 4)">>
_get_execute_query_prompt(ctx) ==
    <<"You are a data analyst. User asked: ", ctx.user_query,
      "CURRENT TASK: FULL QUERY EXECUTION (Step 3 of 4)">>
_get_verify_results_prompt(ctx) ==
    <<"You are a data analyst. User asked: ", ctx.user_query,
      "CURRENT TASK: PROVIDE FINAL ANSWER (Final Step 4 of 4)">>
_get_format_results_prompt(ctx) ==
    <<"You are a data analyst. User asked: ", ctx.user_query,
      "CURRENT TASK: FORMAT FINAL REPORT (Final Step 5 of 5)">>

\* Mutant: the table of prompts has no entry for the report step.
get_current_step_prompt_four_entries(ctx) ==
    IF ctx = None THEN <<"No active workflow.">>
    ELSE IF ctx.current_step = BUILD_QUERY THEN _get_build_query_prompt(ctx)
    ELSE IF ctx.current_step = VALIDATE_QUERY THEN _get_validate_query_prompt(ctx)
    ELSE IF ctx.current_step = EXECUTE_QUERY THEN _get_execute_query_prompt(ctx)
    ELSE IF ctx.current_step = VERIFY_RESULTS THEN _get_verify_results_prompt(ctx)
    ELSE <<"Unknown step.">>

get_current_step_prompt(ctx) ==
    IF ctx = None THEN <<"No active workflow.">>
    ELSE IF ctx.current_step = BUILD_QUERY THEN _get_build_query_prompt(ctx)
    ELSE IF ctx.current_step = VALIDATE_QUERY THEN _get_validate_query_prompt(ctx)
    ELSE IF ctx.current_step = EXECUTE_QUERY THEN _get_execute_query_prompt(ctx)
    ELSE IF ctx.current_step = VERIFY_RESULTS THEN _get_verify_results_prompt(ctx)
    ELSE IF ctx.current_step = FORMAT_RESULTS THEN _get_format_results_prompt(ctx)
    ELSE <<"Unknown step.">>

\* ----------------------------------------------------------------- actions
\* st.session_state as initialize_app leaves it on the first script run.
initial_session_state ==
    [stage |-> "user_input",
     run_id |-> None,
     processor |-> None,
     pending_approval |-> None,
     error_event |-> None,
     workflow_complete |-> FALSE]

\* The agent runtime before any run has been created.
initial_runtime == [runs |-> 0, status |-> "no_run"]

\* OrchestratorAgent(): no context yet.
Init ==
    /\ context = None
    /\ last = [op |-> "__init__"]
    /\ advances = 0
    /\ session = initial_session_state
    /\ runtime = initial_runtime
    /\ run_start = None

StartWorkflow(q) ==
    /\ context' = start_workflow(context, q)
    /\ last' = [op |-> "start_workflow", user_query |-> q, replaced |-> context # None]
    /\ advances' = 0
    /\ UNCHANGED chat

\* The log has room for one more record (the model's bound on its length).
Room(max) == context # None => Len(context.tool_calls) < max

AddToolCall(n, d) ==
    /\ context' = add_tool_call(context, n, d)
    /\ last' = [op |-> "add_tool_call", tool_name |-> n, tool_data |-> d]
    /\ UNCHANGED <<advances, chat>>

AnalyzeAndDecideNext ==
    /\ last' = [op |-> "analyze_and_decide_next", ret |-> analyze_and_decide_next(context)]
    /\ UNCHANGED <<context, advances, chat>>

\* An advance decision reaches the context only when there is one.
Applied(d) == IF context # None /\ d \in AdvanceDecisions THEN 1 ELSE 0

MoveToNextStep(d) ==
    /\ Applied(d) = 1 => Len(context.step_history) < MaxHist
    /\ context' = move_to_next_step(context, d)
    /\ last' = [op |-> "move_to_next_step", decision |-> d,
                raised |-> move_to_next_step_raises(context, d)]
    /\ advances' = advances + Applied(d)
    /\ UNCHANGED chat

IsWorkflowComplete ==
    /\ last' = [op |-> "is_workflow_complete", ret |-> is_workflow_complete(context)]
    /\ UNCHANGED <<context, advances, chat>>

GetWorkflowStatus ==
    /\ last' = [op |-> "get_workflow_status", ret |-> get_workflow_status(context)]
    /\ UNCHANGED <<context, advances, chat>>

GetCurrentStepPrompt ==
    /\ last' = [op |-> "get_current_step_prompt", ret |-> get_current_step_prompt(context)]
    /\ UNCHANGED <<context, advances, chat>>

\* The end of a run in the chat driver: decision = analyze_and_decide_next(),
\* then move_to_next_step(decision). The driver makes the second call for the
\* advance decisions only; for every other decision the call changes nothing.
ApplyDecision ==
    LET decision == analyze_and_decide_next(context) IN
    /\ context' = move_to_next_step(context, decision)
    /\ last' = [op |-> "apply_decision", decision |-> decision]
    /\ advances' = advances + Applied(decision)
    /\ UNCHANGED chat

\* self.context.to_dict(), for a caller that holds a context.
ToDict ==
    /\ context # None
    /\ last' = [op |-> "to_dict", ret |-> to_dict(context)]
    /\ UNCHANGED <<context, advances, chat>>

\* Any caller of the orchestrator: every method, in any order, with any
\* decision string; tool calls are recorded the way the chat driver records
\* them, by name only.
Next ==
    \/ \E q \in UserQueries : StartWorkflow(q)
    \/ \E n \in DriverToolNames : Room(MaxCalls) /\ AddToolCall(n, NoneData)
    \/ AnalyzeAndDecideNext
    \/ \E d \in Decisions : MoveToNextStep(d)
    \/ IsWorkflowComplete
    \/ GetWorkflowStatus
    \/ GetCurrentStepPrompt
    \/ ToDict

Spec == Init /\ [][Next]_vars

\* A session driven only by start, record_tool_call and apply(decide()).
NextDriven ==
    \/ \E q \in UserQueries : StartWorkflow(q)
    \/ \E n \in ToolNames, d \in ToolPayloads : Room(MaxDrivenCalls) /\ AddToolCall(n, d)
    \/ ApplyDecision

SpecDriven == Init /\ [][NextDriven]_vars

\* ---------------------------------------------------------------- the chat
\* streamlit_analyst_app.py: one script run of main() per user action or
\* st.rerun(), over st.session_state and the orchestrator kept in it. The
\* agent runtime behind AgentManager and RunProcessor is a collaborator: it
\* creates runs, yields each run's events in order and takes approvals.

\* agent_manager.create_run(thread_id, prompt): a new run, in progress.
create_run(rt) == [runs |-> rt.runs + 1, status |-> "in_progress"]
RunId(rt) == [id |-> rt.runs]

\* agent_manager.submit_approvals(event, approved) with success flag ok: on
\* success the run resumes if approved and is abandoned if denied; on failure
\* the run still waits for a decision.
submit_approvals(rt, approved, ok) ==
    IF ~ok THEN rt
    ELSE [rt EXCEPT !.status = IF approved THEN "in_progress" ELSE "abandoned"]

\* What next(event_generator) can give for the newest run: an event of one of
\* the kinds of run_events, or the end of the stream. A run that waits for an
\* approval yields nothing new (its request again, or nothing), a run that
\* failed yields its error again or nothing.
Exhausted == "StopIteration"
EventTypes == {"message", "tool_call", "tool_calls_step", "requires_approval", "error", "completed"}
NextOfStream(rt) ==
    IF rt.status = "in_progress" THEN EventTypes \cup {Exhausted}
    ELSE IF rt.status = "requires_action" THEN {"requires_approval", Exhausted}
    ELSE IF rt.status = "failed" THEN {"error", Exhausted}
    ELSE {Exhausted}

on_tool_approve(s, ok) ==
    IF ok THEN [s EXCEPT !.pending_approval = None, !.stage = "processing"] ELSE s

\* Mutant: a denial clears the request and lets the run go on.
on_tool_deny_keeps_processing(s, ok) ==
    IF ok THEN [s EXCEPT !.pending_approval = None, !.stage = "processing"] ELSE s

on_tool_deny(s, ok) ==
    IF ok THEN [s EXCEPT !.pending_approval = None, !.processor = None, !.stage = "user_input"]
    ELSE s

on_error_retry(s) == [s EXCEPT !.stage = "processing", !.error_event = None]

on_error_cancel(s) ==
    [s EXCEPT !.stage = "user_input", !.run_id = None, !.processor = None, !.error_event = None]

\* Session state after create_run and RunProcessor(...) in main.
run_started(s, rt) ==
    [s EXCEPT !.run_id = RunId(rt), !.processor = [client |-> "agents_client"],
              !.stage = "processing"]

\* Session state after the reset to user input at the end of main.
reset_to_user_input(s) ==
    [s EXCEPT !.stage = "user_input", !.run_id = None, !.processor = None]

\* main with neither gate: the processing block polls the run even with an
\* approval pending or an error shown.
Polling_without_gates ==
    /\ session.run_id # None
    /\ session.processor # None

\* main passes both gates (no pending approval, no error shown) and its
\* processing block polls the run.
Polling ==
    /\ session.pending_approval = None
    /\ session.stage = "processing"
    /\ session.run_id # None
    /\ session.processor # None

\* The user types a question: a new workflow and its first run.
UserSubmits(q) ==
    /\ session.pending_approval = None
    /\ session.stage = "user_input"
    /\ runtime.runs < MaxRuns
    /\ context' = start_workflow(context, q)
    /\ advances' = 0
    /\ runtime' = create_run(runtime)
    /\ session' = run_started(session, runtime')
    /\ run_start' = context'
    /\ last' = [op |-> "main", event |-> "chat_input",
                calls |-> <<"start_workflow", "get_current_step_prompt">>,
                prompt |-> get_current_step_prompt(context')]

\* A message or the completed event: rendered, nothing recorded.
ReceiveMessage(type) ==
    /\ Polling /\ type \in NextOfStream(runtime)
    /\ last' = [op |-> "main", event |-> type, calls |-> << >>]
    /\ UNCHANGED <<context, advances, session, runtime, run_start>>

\* for tool_call in event.tool_calls: orchestrator.add_tool_call(...)
RECURSIVE add_tool_calls(_, _)
add_tool_calls(ctx, names) ==
    IF names = << >> THEN ctx
    ELSE add_tool_calls(add_tool_call(ctx, Head(names), NoneData), Tail(names))

\* A ToolCallEvent (one name) or a ToolCallsStepEvent (its list of names).
ToolCallLists == {<<n>> : n \in DriverToolNames} \cup {<<n, m>> : n, m \in DriverToolNames}
ReceiveToolCalls(type, names) ==
    /\ Polling /\ type \in NextOfStream(runtime)
    /\ type = "tool_call" => Len(names) = 1
    /\ context # None => Len(context.tool_calls) + Len(names) <= MaxDrivenCalls
    /\ context' = add_tool_calls(context, names)
    /\ last' = [op |-> "main", event |-> type,
                calls |-> [i \in 1..Len(names) |-> "add_tool_call"]]
    /\ UNCHANGED <<advances, session, runtime, run_start>>

\* A blocking event. With approval not required main approves at once and
\* reruns whatever submit_approvals returned (ok); otherwise the event is
\* kept as the pending approval and nothing is submitted (ok is not read).
ReceiveApprovalRequest(require_approval, ok) ==
    /\ Polling /\ "requires_approval" \in NextOfStream(runtime)
    /\ LET waiting == [runtime EXCEPT !.status = "requires_action"] IN
        IF require_approval
        THEN /\ ok
             /\ session' = [session EXCEPT !.pending_approval =
                                [event |-> "requires_approval", run_id |-> session.run_id]]
             /\ runtime' = waiting
        ELSE /\ session' = on_tool_approve(session, ok)
             /\ runtime' = submit_approvals(waiting, TRUE, ok)
    /\ last' = [op |-> "main", event |-> "requires_approval", calls |-> << >>,
                require_approval |-> require_approval]
    /\ UNCHANGED <<context, advances, run_start>>

\* An ErrorEvent: main stops on it.
ReceiveError ==
    /\ Polling /\ "error" \in NextOfStream(runtime)
    /\ session' = [session EXCEPT !.error_event = [event |-> "error"], !.stage = "error"]
    /\ runtime' = [runtime EXCEPT !.status = "failed"]
    /\ last' = [op |-> "main", event |-> "error", calls |-> << >>]
    /\ UNCHANGED <<context, advances, run_start>>

\* The stream ends: main asks for the decision and acts on it.
RunCompleted ==
    LET decision == analyze_and_decide_next(context)
        moved == move_to_next_step(context, decision)
    IN
    /\ Polling /\ Exhausted \in NextOfStream(runtime)
    /\ IF decision = "workflow_complete"
       THEN /\ session' = [reset_to_user_input(session) EXCEPT !.workflow_complete = TRUE]
            /\ runtime' = [runtime EXCEPT !.status = "completed"]
            /\ last' = [op |-> "main", event |-> Exhausted, decision |-> decision,
                        calls |-> <<"analyze_and_decide_next">>]
            /\ UNCHANGED <<context, advances, run_start>>
       ELSE IF decision \in AdvanceDecisions
       THEN /\ runtime.runs < MaxRuns
            /\ context' = moved
            /\ advances' = advances + 1
            /\ runtime' = create_run(runtime)
            /\ session' = run_started(session, runtime')
            /\ run_start' = moved
            /\ last' = [op |-> "main", event |-> Exhausted, decision |-> decision,
                        calls |-> <<"analyze_and_decide_next", "move_to_next_step",
                                    "get_current_step_prompt">>,
                        prompt |-> get_current_step_prompt(moved)]
       ELSE IF decision = "retry_current"
       THEN /\ runtime.runs < MaxRuns
            /\ runtime' = create_run(runtime)
            /\ session' = run_started(session, runtime')
            /\ run_start' = context
            /\ last' = [op |-> "main", event |-> Exhausted, decision |-> decision,
                        calls |-> <<"analyze_and_decide_next", "get_current_step_prompt">>,
                        prompt |-> get_current_step_prompt(context)]
            /\ UNCHANGED <<context, advances>>
       ELSE /\ session' = reset_to_user_input(session)
            /\ runtime' = [runtime EXCEPT !.status = "completed"]
            /\ last' = [op |-> "main", event |-> Exhausted, decision |-> decision,
                        calls |-> <<"analyze_and_decide_next">>]
            /\ UNCHANGED <<context, advances, run_start>>

\* The buttons of the approval request, shown while an approval is pending.
ApproveClicked(ok) ==
    /\ session.pending_approval # None
    /\ session' = on_tool_approve(session, ok)
    /\ runtime' = submit_approvals(runtime, TRUE, ok)
    /\ last' = [op |-> "on_tool_approve", ok |-> ok, calls |-> << >>]
    /\ UNCHANGED <<context, advances, run_start>>

DenyClicked(ok) ==
    /\ session.pending_approval # None
    /\ session' = on_tool_deny(session, ok)
    /\ runtime' = submit_approvals(runtime, FALSE, ok)
    /\ last' = [op |-> "on_tool_deny", ok |-> ok, calls |-> << >>]
    /\ UNCHANGED <<context, advances, run_start>>

\* The buttons of the error, shown in the error stage.
ErrorShown == session.pending_approval = None /\ session.stage = "error"

ErrorRetry ==
    /\ ErrorShown
    /\ session' = on_error_retry(session)
    /\ last' = [op |-> "on_error_retry", calls |-> << >>]
    /\ UNCHANGED <<context, advances, runtime, run_start>>

ErrorCancel ==
    /\ ErrorShown
    /\ session' = on_error_cancel(session)
    /\ last' = [op |-> "on_error_cancel", calls |-> << >>]
    /\ UNCHANGED <<context, advances, runtime, run_start>>

\* The sidebar button, shown whenever the orchestrator has a workflow.
StartNewAnalysis ==
    /\ context # None
    /\ context' = None
    /\ session' = [session EXCEPT !.workflow_complete = FALSE]
    /\ last' = [op |-> "render_workflow_status", calls |-> <<"__init__">>]
    /\ UNCHANGED <<advances, runtime, run_start>>

NextChat ==
    \/ \E q \in UserQueries : UserSubmits(q)
    \/ \E type \in {"message", "completed"} : ReceiveMessage(type)
    \/ \E type \in {"tool_call", "tool_calls_step"}, names \in ToolCallLists :
            ReceiveToolCalls(type, names)
    \/ \E require_approval, ok \in BOOLEAN : ReceiveApprovalRequest(require_approval, ok)
    \/ ReceiveError
    \/ RunCompleted
    \/ \E ok \in BOOLEAN : ApproveClicked(ok)
    \/ \E ok \in BOOLEAN : DenyClicked(ok)
    \/ ErrorRetry
    \/ ErrorCancel
    \/ StartNewAnalysis

SpecChat == Init /\ [][NextChat]_vars

\* ------------------------------------------------- comparing decisions
\* Any caller of start_workflow, add_tool_call and move_to_next_step with an
\* advance decision, asking for the decision in every context it builds.
HistRoom(max) == context # None => Len(context.step_history) < max

ReplayQueries == {"q1"}

NextReplay ==
    \/ \E q \in ReplayQueries : StartWorkflow(q)
    \/ \E n \in DriverToolNames : Room(MaxReplayCalls) /\ AddToolCall(n, NoneData)
    \/ \E d \in AdvanceDecisions : HistRoom(MaxReplayHist) /\ MoveToNextStep(d)
    \/ AnalyzeAndDecideNext

SpecReplay == Init /\ [][NextReplay]_vars

\* The contexts those calls build: what start_workflow returns, and what
\* add_tool_call and move_to_next_step return for a context already built.
ContextsAfter(ctx) ==
    {add_tool_call(ctx, n, NoneData) :
        n \in IF Len(ctx.tool_calls) < MaxReplayCalls THEN DriverToolNames ELSE {}}
    \cup {move_to_next_step(ctx, d) :
        d \in IF Len(ctx.step_history) < MaxReplayHist THEN AdvanceDecisions ELSE {}}

RECURSIVE ContextsFrom(_, _)
ContextsFrom(done, frontier) ==
    IF frontier = {} THEN done
    ELSE LET seen == {c \in done \cup frontier : TRUE}
         IN ContextsFrom(seen, {c \in UNION {ContextsAfter(f) : f \in frontier} : c \notin seen})

ReachableContexts == ContextsFrom({}, {start_workflow(None, q) : q \in ReplayQueries})

\* ------------------------------------------------ serialising a context
\* The WorkflowContext values handed to to_dict: the dataclass is public, so
\* any field values of the declared types.
SeqsUpTo(S, n) == UNION {[1..k -> S] : k \in 0..n}
SharedDataValues == {EmptyDict, "{sql: s}"}
ToolCallRecords ==
    [name : DriverToolNames, step : {s.value : s \in WorkflowStep}, data : {EmptyDict, "{rows: 1}"}]
Contexts ==
    [user_query : UserQueries,
     current_step : WorkflowStep,
     step_history : SeqsUpTo(WorkflowStep, MaxCodecHist),
     shared_data : SharedDataValues,
     tool_calls : SeqsUpTo(ToolCallRecords, MaxCalls)]

InitCodec ==
    /\ context \in Contexts
    /\ last = [op |-> "__init__"]
    /\ advances = 0
    /\ session = initial_session_state
    /\ runtime = initial_runtime
    /\ run_start = None

FromDict ==
    /\ last.op = "to_dict"
    /\ last' = [op |-> "from_dict", data |-> last.ret, ret |-> from_dict(last.ret)]
    /\ UNCHANGED <<context, advances, chat>>

NextCodec == ToDict \/ FromDict

SpecCodec == InitCodec /\ [][NextCodec]_vars

\* ------------------------------------------------------------- the claims
\* The pipeline and its transition table, as the specification gives them.
Pipeline == <<BUILD_QUERY, VALIDATE_QUERY, EXECUTE_QUERY, VERIFY_RESULTS, FORMAT_RESULTS>>
PipelineLength == Len(Pipeline)
TerminalStep == Pipeline[PipelineLength]
NonTerminalSteps == {Pipeline[i] : i \in 1..(PipelineLength - 1)}
TableTarget(step) == Pipeline[(CHOOSE i \in 1..(PipelineLength - 1) : Pipeline[i] = step) + 1]

\* The step each advance decision names.
AdvanceTarget(decision) ==
    CASE decision = "move_to_validate" -> VALIDATE_QUERY
      [] decision = "move_to_execute" -> EXECUTE_QUERY
      [] decision = "move_to_verify" -> VERIFY_RESULTS
      [] decision = "move_to_format" -> FORMAT_RESULTS
      [] decision = "move_to_build_query" -> BUILD_QUERY

Active == context # None
\* Some recorded tool call carries the tag of the step.
RecordedIn(step) == \E i \in 1..Len(context.tool_calls) : context.tool_calls[i].step = step.value
Decision == analyze_and_decide_next(context)
Decided == last.op = "analyze_and_decide_next"

\* C1: in a non-terminal step with at least one tool call recorded in that
\* step, the decision is the advance decision whose target is the step the
\* transition table gives, and no other.
C1_AdvanceToTableTarget ==
    (Active /\ context.current_step \in NonTerminalSteps /\ RecordedIn(context.current_step))
        => /\ Decision \in AdvanceDecisions
           /\ AdvanceTarget(Decision) = TableTarget(context.current_step)

\* C1 happens: decide() has just returned the advance out of ExecuteQuery, on
\* the strength of a call recorded there.
C1_Witness ==
    /\ Active /\ Decided
    /\ context.current_step = EXECUTE_QUERY /\ RecordedIn(EXECUTE_QUERY)
    /\ last.ret = "move_to_verify"

\* C2 as stated: in every non-terminal step, no tool call recorded in the
\* current step means RetryCurrent.
C2_RetryWithoutOwnCall ==
    (Active /\ context.current_step \in NonTerminalSteps /\ ~RecordedIn(context.current_step))
        => Decision = "retry_current"

\* C2 amended: in BuildQuery, ValidateQuery and ExecuteQuery the decision is an
\* advance exactly when a tool call is recorded in the current step, and
\* RetryCurrent otherwise; in VerifyResults it is the advance to FormatResults
\* exactly when the log holds any tool call at all or the history has three
\* entries, and RetryCurrent otherwise.
C2_AdvanceIffEvidence ==
    (Active /\ context.current_step \in NonTerminalSteps)
        => LET evidence ==
                IF context.current_step = VERIFY_RESULTS
                THEN Len(context.tool_calls) > 0 \/ Len(context.step_history) >= PipelineLength - 2
                ELSE RecordedIn(context.current_step)
           IN /\ evidence => Decision \in AdvanceDecisions
              /\ ~evidence => Decision = "retry_current"

\* C2 happens: the decision taken in VerifyResults was the advance to
\* FormatResults although no tool call is recorded in VerifyResults.
C2_Witness ==
    /\ Active /\ last.op = "apply_decision" /\ last.decision = "move_to_format"
    /\ context.current_step = FORMAT_RESULTS /\ ~RecordedIn(VERIFY_RESULTS)

\* C3: in the terminal step FormatResults the decision is Complete when the
\* log holds a tool call or the history has at least N-1 entries, RetryCurrent
\* otherwise, and never an advance.
C3_TerminalDecision ==
    (Active /\ context.current_step = TerminalStep)
        => /\ Decision \notin AdvanceDecisions
           /\ Decision = IF Len(context.tool_calls) > 0 \/ Len(context.step_history) >= PipelineLength - 1
                          THEN "workflow_complete" ELSE "retry_current"

\* C3 happens: decide() has just returned RetryCurrent in FormatResults, with
\* an empty log and one entry short of N-1 in the history.
C3_Witness ==
    /\ Active /\ Decided
    /\ context.current_step = FORMAT_RESULTS
    /\ Len(context.tool_calls) = 0 /\ Len(context.step_history) = PipelineLength - 2
    /\ last.ret = "retry_current"

\* s is t or a proper beginning of t.
IsPrefix(s, t) == Len(s) <= Len(t) /\ \A i \in 1..Len(s) : s[i] = t[i]
\* The step just taken is the call named, made on an active context.
Called(op) == Active /\ last'.op = op

\* C4: applying an advance decision appends the step that was current to the
\* end of the history and makes the decision's target the current step;
\* applying Complete or RetryCurrent leaves the whole context as it was.
C4_ApplyEffect ==
    [][Called("move_to_next_step") =>
        /\ last'.decision \in AdvanceDecisions =>
              /\ context'.step_history = Append(context.step_history, context.current_step)
              /\ context'.current_step = AdvanceTarget(last'.decision)
        /\ last'.decision \in {"workflow_complete", "retry_current"} => context' = context]_vars

\* C4 happens: an advance decision has been applied in a step other than the
\* first, so that the step left and the step entered both show.
C4_Witness ==
    /\ Active /\ last.op = "move_to_next_step" /\ last.decision = "move_to_execute"
    /\ Len(context.step_history) = 2
    /\ context.step_history[2] = VERIFY_RESULTS

\* C5: start(q), whatever the state it is called in, leaves a context with
\* user_query = q, current step BuildQuery, and empty history, tool-call log
\* and shared data.
C5_StartResets ==
    [][last'.op = "start_workflow" =>
        /\ context' # None
        /\ context'.user_query = last'.user_query
        /\ context'.current_step = Pipeline[1]
        /\ context'.step_history = << >>
        /\ context'.tool_calls = << >>
        /\ context'.shared_data = EmptyDict]_vars

\* C5 happens: start has just replaced an existing context.
C5_Witness ==
    /\ last.op = "start_workflow" /\ last.replaced
    /\ context.user_query = "q2"

\* C6: record_tool_call on an active context appends exactly one record,
\* carrying the given name and the tag of the step current at that moment;
\* within a session no later call changes the tag of a record already in the
\* log.
C6_RecordTagged ==
    [][/\ Called("add_tool_call") =>
            /\ Len(context'.tool_calls) = Len(context.tool_calls) + 1
            /\ IsPrefix(context.tool_calls, context'.tool_calls)
            /\ context'.tool_calls[Len(context'.tool_calls)].name = last'.tool_name
            /\ context'.tool_calls[Len(context'.tool_calls)].step = context.current_step.value
       /\ (Active /\ last'.op # "start_workflow") =>
            \A i \in 1..Len(context.tool_calls) :
                /\ i <= Len(context'.tool_calls)
                /\ context'.tool_calls[i].step = context.tool_calls[i].step]_vars

\* C6 happens: a record made in an earlier step is still in the log, with its
\* own tag, after a later step has been entered and recorded in.
C6_Witness ==
    /\ Active /\ last.op = "add_tool_call"
    /\ Len(context.tool_calls) >= 2
    /\ context.tool_calls[1].step = BUILD_QUERY.value
    /\ context.current_step = VALIDATE_QUERY
    /\ context.tool_calls[Len(context.tool_calls)].step = VALIDATE_QUERY.value

\* Every step of the pipeline has a tool call recorded in it.
RecordedInEveryStep == \A i \in 1..PipelineLength : RecordedIn(Pipeline[i])

\* C7 as stated: in a session that records a tool call in every step and
\* applies every decision, is_complete() is true after (pipeline length)
\* advance decisions and false after any smaller number.
C7_CompleteAfterPipelineLength ==
    (Active /\ RecordedInEveryStep)
        => (is_workflow_complete(context) <=> advances >= PipelineLength)

\* C7 amended: is_complete() is true after exactly (pipeline length - 1)
\* advance decisions: false after any smaller number, true in a session that
\* has recorded a tool call in every step, and once it is true the decision is
\* never an advance, so no session applies more.
C7_CompleteAfterFourAdvances ==
    Active =>
        /\ is_workflow_complete(context) <=> advances = PipelineLength - 1
        /\ advances <= PipelineLength - 1
        /\ is_workflow_complete(context) => Decision \notin AdvanceDecisions
        /\ RecordedInEveryStep => is_workflow_complete(context)

\* C7 happens: a session has recorded a tool call in every step, from
\* BuildQuery through FormatResults, and its last decision was Complete.
C7_Witness ==
    /\ Active /\ RecordedInEveryStep
    /\ last.op = "apply_decision" /\ last.decision = "workflow_complete"
    /\ advances = PipelineLength - 1

\* C8: is_complete() is true exactly when there is no context or the history
\* has at least four entries, which in a driven session are the four steps
\* up to and including VerifyResults; and whenever the decision is Complete,
\* is_complete() is true and the history has length four.
C8_CompleteMeansVerified ==
    /\ is_workflow_complete(context) <=> (~Active \/ Len(context.step_history) >= PipelineLength - 1)
    /\ (Active /\ is_workflow_complete(context)) =>
            context.step_history = SubSeq(Pipeline, 1, PipelineLength - 1)
    /\ Decision = "workflow_complete" =>
            /\ is_workflow_complete(context)
            /\ Len(context.step_history) = PipelineLength - 1

\* C8 happens: the decision just applied was Complete.
C8_Witness ==
    /\ Active /\ last.op = "apply_decision" /\ last.decision = "workflow_complete"
    /\ context.current_step = TerminalStep

\* C9: within a session the history only grows at its end: applying an
\* advance decision makes it exactly one longer, every other call but start
\* leaves its length as it was, and no entry is changed or removed.
C9_HistoryAppendOnly ==
    [][(Active /\ last'.op # "start_workflow") =>
        /\ IsPrefix(context.step_history, context'.step_history)
        /\ Len(context'.step_history) = Len(context.step_history) +
              (IF last'.op = "move_to_next_step" /\ last'.decision \in AdvanceDecisions THEN 1 ELSE 0)]_vars

\* C9 happens: a second advance has been applied, on top of a history that
\* already had an entry to keep.
C9_Witness ==
    /\ Active /\ last.op = "move_to_next_step" /\ last.decision \in AdvanceDecisions
    /\ Len(context.step_history) = 2

\* C10: within a session the tool-call log only grows at its end; applying a
\* decision, be it RetryCurrent, an advance or Complete, leaves it as it was.
C10_LogAppendOnly ==
    [][(Active /\ last'.op # "start_workflow") =>
        /\ IsPrefix(context.tool_calls, context'.tool_calls)
        /\ last'.op = "apply_decision" => context'.tool_calls = context.tool_calls]_vars

\* C10 happens: a retry of ValidateQuery has been decided and the record
\* made in BuildQuery is still in the log.
C10_Witness ==
    /\ Active /\ last.op = "apply_decision" /\ last.decision = "retry_current"
    /\ context.current_step = VALIDATE_QUERY
    /\ Len(context.tool_calls) >= 1 /\ RecordedIn(BUILD_QUERY)

\* The decisions move_to_next_step is written for.
RecognizedDecisions == AdvanceDecisions \cup {"workflow_complete", "retry_current"}

\* C11: apply called with a decision that is none of the recognized ones ends
\* with an error; it never returns normally.
C11_UnknownDecisionFailsLoudly ==
    (last.op = "move_to_next_step" /\ last.decision \notin RecognizedDecisions) => last.raised

\* C12: applying the same decision twice in a row, with no other call in
\* between, leaves the context after the second call equal to the context
\* after the first.
C12_ApplyTwiceAppendsOnce ==
    [][(Active /\ last.op = "move_to_next_step" /\ last'.op = "move_to_next_step"
            /\ last'.decision = last.decision)
        => context' = context]_vars

\* C13: with no context, every call but start leaves the orchestrator
\* without a context and returns its fallback: decide NoWorkflow, the prompt
\* the sentinel text, status the no_workflow record, is_complete true; record
\* and apply do nothing and do not fail.
C13_NoContextFallbacks ==
    [][(~Active /\ last'.op # "start_workflow") =>
        /\ context' = None
        /\ last'.op = "analyze_and_decide_next" => last'.ret = "no_workflow"
        /\ last'.op = "get_current_step_prompt" => last'.ret = <<"No active workflow.">>
        /\ last'.op = "get_workflow_status" => last'.ret = [status |-> "no_workflow"]
        /\ last'.op = "move_to_next_step" => ~last'.raised]_vars

\* C13 happens: a tool call has been recorded with no context, and there is
\* still none.
C13_Witness ==
    ~Active /\ last.op = "add_tool_call"

\* C15: a context serialised by to_dict and read back by from_dict equals the
\* context, and in the dict current_step and every step_history entry is the
\* step's string value.
C15_RoundTrip ==
    last.op = "from_dict" =>
        /\ last.ret = context
        /\ last.data.current_step = context.current_step.value
        /\ Len(last.data.step_history) = Len(context.step_history)
        /\ \A i \in 1..Len(context.step_history) :
                last.data.step_history[i] = context.step_history[i].value

\* C15 happens: a context with a history, a recorded call and shared data has
\* gone through to_dict and from_dict.
C15_Witness ==
    /\ last.op = "from_dict"
    /\ Len(context.step_history) = MaxCodecHist
    /\ context.tool_calls # << >>
    /\ context.shared_data # EmptyDict

\* C16: get_workflow_status leaves the context as it was, and with an active
\* context it reports the current step, the history, the length of the
\* tool-call log and what is_workflow_complete returns in that state.
C16_StatusSnapshot ==
    [][last'.op = "get_workflow_status" =>
        /\ context' = context
        /\ Active =>
            /\ last'.ret.current_step = context.current_step.value
            /\ last'.ret.step_history = StepValues(context.step_history)
            /\ last'.ret.total_tool_calls = Len(context.tool_calls)
            /\ last'.ret.is_complete = is_workflow_complete(context)]_vars

\* C16 happens: status has been asked for in a later step of a workflow that
\* holds a recorded call.
C16_Witness ==
    /\ Active /\ last.op = "get_workflow_status"
    /\ context.step_history # << >> /\ context.tool_calls # << >>

\* C17: while a workflow is active, no call but start_workflow changes
\* user_query or shared_data, and current_step changes only when
\* move_to_next_step is given one of the advance decisions.
C17_FieldsChangedOnlyByOwner ==
    [][(Active /\ last'.op # "start_workflow") =>
        /\ context' # None
        /\ context'.user_query = context.user_query
        /\ context'.shared_data = context.shared_data
        /\ context'.current_step # context.current_step =>
                (last'.op = "move_to_next_step" /\ last'.decision \in AdvanceDecisions)]_vars

\* C17 happens: retry_current has been applied in a step after the first.
C17_Witness ==
    /\ Active /\ last.op = "move_to_next_step" /\ last.decision = "retry_current"
    /\ context.current_step # BUILD_QUERY

\* The prompt of a step for a query, whatever else the context holds.
PromptFor(step, user_query) ==
    get_current_step_prompt([start_workflow(None, user_query) EXCEPT !.current_step = step])

\* C18: with an active context get_current_step_prompt returns neither the
\* no-workflow text nor the unknown-step text; it returns a non-empty text
\* that holds the user's query, differs from every other step's text, and is
\* the same for every context with that step and that query.
C18_PromptTotal ==
    (Active /\ last.op = "get_current_step_prompt") =>
        /\ last.ret \notin {<<"No active workflow.">>, <<"Unknown step.">>, << >>}
        /\ \E i \in 1..Len(last.ret) : last.ret[i] = context.user_query
        /\ last.ret = PromptFor(context.current_step, context.user_query)
        /\ \A s \in WorkflowStep \ {context.current_step} :
                last.ret # PromptFor(s, context.user_query)

\* C18 happens: the prompt of the report step has been asked for.
C18_Witness ==
    /\ Active /\ last.op = "get_current_step_prompt"
    /\ context.current_step = FORMAT_RESULTS /\ context.tool_calls # << >>

\* What the decision is said to depend on: the current step and how many
\* recorded calls carry each step's tag.
TagCounts(ctx) ==
    [s \in WorkflowStep |->
        Cardinality({i \in 1..Len(ctx.tool_calls) : ctx.tool_calls[i].step = s.value})]
DecisionKey(ctx) == <<ctx.current_step, TagCounts(ctx)>>
DecisionKeyWithLength(ctx) == <<ctx.current_step, TagCounts(ctx), Len(ctx.step_history)>>

\* For each context the calls can build: its decision, filed under each key.
DecisionsByKey ==
    {<<DecisionKey(c), analyze_and_decide_next(c)>> : c \in ReachableContexts}
DecisionsByKeyWithLength ==
    {<<DecisionKeyWithLength(c), analyze_and_decide_next(c)>> : c \in ReachableContexts}
DecisionStrings == Decisions \cup {"no_workflow"}

\* C14 as stated: the decision just returned is the decision of every
\* context the calls can build that has the same current step and the same
\* number of recorded calls per tag.
C14_DecisionByStepAndTags ==
    (Active /\ last.op = "analyze_and_decide_next") =>
        \A d \in DecisionStrings :
            <<DecisionKey(context), d>> \in DecisionsByKey => d = last.ret

\* C14 amended: the decision just returned is the decision of every context
\* the calls can build that has the same current step, the same number of
\* recorded calls per tag and a history of the same length.
C14_DecisionByStepTagsAndHistoryLength ==
    (Active /\ last.op = "analyze_and_decide_next") =>
        \A d \in DecisionStrings :
            <<DecisionKeyWithLength(context), d>> \in DecisionsByKeyWithLength => d = last.ret

\* C14 happens: a decision has been returned in a context that shares step,
\* tag counts and history length with a context of another history and
\* another order of recorded calls.
C14_Witness ==
    /\ Active /\ last.op = "analyze_and_decide_next"
    /\ Len(context.tool_calls) = 2 /\ Len(context.step_history) = 3
    /\ \E c \in ReachableContexts :
        /\ DecisionKeyWithLength(c) = DecisionKeyWithLength(context)
        /\ c.step_history # context.step_history
        /\ c.tool_calls # context.tool_calls

\* The orchestrator methods a script run of the chat called.
CallsMade(record) == {record.calls[i] : i \in 1..Len(record.calls)}
\* The newest run asked for an approval and no decision has been submitted
\* with success since.
ApprovalOutstanding == runtime.status = "requires_action"

\* C19: while an approval is outstanding, no script run takes anything but
\* the approval request from the stream, records a tool call, asks for the
\* decision or applies one.
C19_ApprovalIsHardPause ==
    [][ApprovalOutstanding =>
        /\ last'.op = "main" => last'.event = "requires_approval"
        /\ CallsMade(last') \cap
                {"add_tool_call", "analyze_and_decide_next", "move_to_next_step"} = {}]_vars

\* What a successful denial does, and what follows it: the orchestrator is
\* as it was, the chat is back at the user's input with no processor and no
\* pending approval; and while the denied run is the newest run, the only
\* script run that does anything is the one that takes a new question.
DenialEffect ==
    /\ (session.pending_approval # None /\ last'.op = "on_tool_deny" /\ last'.ok) =>
            /\ context' = context /\ advances' = advances
            /\ session'.stage = "user_input"
            /\ session'.processor = None
            /\ session'.pending_approval = None
            /\ runtime'.status = "abandoned"
    /\ runtime.status = "abandoned" =>
            /\ last'.op = "main" => last'.event = "chat_input"
            /\ CallsMade(last') \cap {"analyze_and_decide_next", "move_to_next_step"} = {}

\* C20 as stated: a successful denial has the effect above, and from the
\* request to the denial the orchestrator's context does not change.
C20_DenialKeepsRequestedState ==
    [][/\ DenialEffect
       /\ session.pending_approval # None => context' = context]_vars

\* C20 amended: a successful denial has the effect above, and from the
\* request to the denial the orchestrator's context changes only if the
\* user presses Start New Analysis.
C20_DenialAbandonsRun ==
    [][/\ DenialEffect
       /\ (session.pending_approval # None /\ last'.op # "render_workflow_status")
            => context' = context]_vars

\* C20 happens: an approval requested in a step after the first, with a
\* call on record, has been denied with success.
C20_Witness ==
    /\ last.op = "on_tool_deny" /\ last.ok
    /\ runtime.status = "abandoned" /\ session.stage = "user_input"
    /\ Active /\ context.step_history # << >> /\ context.tool_calls # << >>

\* C21: while the driver is stopped on the error event of a run, the
\* orchestrator's current_step, step_history and tool_calls are what they
\* were when that run was created.
C21_FailedRunLeavesStateUntouched ==
    (session.stage = "error" /\ Active) => context = run_start

NoToolCallYet == Active /\ context.tool_calls = << >>

\* C23: as long as no tool call has been recorded in a session, the session
\* is in build_query with an empty step history; every polling script run
\* of it can take the end of the stream, however many runs there have been;
\* the decision at the end of each stream is retry_current, it leaves the
\* context as it is, and the driver answers it with a fresh run that gets
\* the build_query prompt, so the session neither advances nor completes
\* nor goes back to the user's input.
C23_NoCapOnRetries ==
    [][NoToolCallYet =>
        /\ context.current_step = BUILD_QUERY /\ context.step_history = << >>
        /\ ~is_workflow_complete(context)
        /\ (Polling /\ Exhausted \in NextOfStream(runtime) /\ runtime.runs < MaxRuns)
                => ENABLED RunCompleted
        /\ "analyze_and_decide_next" \in CallsMade(last') =>
            /\ last'.decision = "retry_current"
            /\ context' = context /\ advances' = advances
            /\ runtime'.runs = runtime.runs + 1 /\ runtime'.status = "in_progress"
            /\ session'.stage = "processing" /\ session'.run_id = RunId(runtime')
            /\ session'.workflow_complete = session.workflow_complete
            /\ last'.prompt = _get_build_query_prompt(context)]_vars

\* C23 happens: a session with no tool call on record has been retried up
\* to the last run the model allows, and is in build_query still.
C23_Witness ==
    /\ NoToolCallYet /\ advances = 0
    /\ last.op = "main" /\ last.event = Exhausted /\ last.decision = "retry_current"
    /\ runtime.runs = MaxRuns /\ runtime.status = "in_progress"
    /\ context.current_step = BUILD_QUERY /\ context.step_history = << >>

\* The steps that are ever appended to the history: all but the terminal one.
RecordedPipeline == SubSeq(Pipeline, 1, PipelineLength - 1)

\* C24: in a driven session the step history is a prefix of build_query,
\* validate_query, execute_query, verify_results; the current step is the
\* step of the pipeline at the position after the history; the history
\* never has more than four entries.
C24_PipelineOrder ==
    Active =>
        /\ Len(context.step_history) <= PipelineLength - 1
        /\ IsPrefix(context.step_history, RecordedPipeline)
        /\ context.current_step = Pipeline[Len(context.step_history) + 1]

\* C24 happens: the last of the four advances has just been applied, format
\* is current and the four steps before it are the history, in order.
C24_Witness ==
    /\ Active /\ last.op = "apply_decision" /\ last.decision = "move_to_format"
    /\ context.step_history = RecordedPipeline
    /\ context.current_step = FORMAT_RESULTS

\* C25: in a driven session with an active context the three signals of
\* completion agree: is_workflow_complete() is true exactly when the current
\* step is format_results, and that is exactly when the decision is
\* workflow_complete.
C25_CompletionSignalsAgree ==
    Active =>
        /\ is_workflow_complete(context) <=> context.current_step = FORMAT_RESULTS
        /\ context.current_step = FORMAT_RESULTS <=> Decision = "workflow_complete"

\* C25 happens: a tool call has just been recorded in format_results, and
\* the three signals all say complete.
C25_Witness ==
    /\ Active /\ last.op = "add_tool_call"
    /\ context.current_step = FORMAT_RESULTS
    /\ is_workflow_complete(context)
    /\ Decision = "workflow_complete"

\* The last two steps of the pipeline.
LastTwoSteps == {VERIFY_RESULTS, FORMAT_RESULTS}

\* C26: in a driven session the decision is retry_current only in
\* build_query, validate_query or execute_query; in verify_results and in
\* format_results the log is not empty, the decision in verify_results is
\* move_to_format and applying it enters format_results, and the decision in
\* format_results is workflow_complete: each of the two steps is left by the
\* first decision taken in it.
C26_RetryOnlyBeforeVerify ==
    Active =>
        /\ Decision = "retry_current" =>
                context.current_step \in {BUILD_QUERY, VALIDATE_QUERY, EXECUTE_QUERY}
        /\ context.current_step \in LastTwoSteps => context.tool_calls # << >>
        /\ context.current_step = VERIFY_RESULTS =>
                /\ Decision = "move_to_format"
                /\ move_to_next_step(context, Decision).current_step = FORMAT_RESULTS
        /\ context.current_step = FORMAT_RESULTS => Decision = "workflow_complete"

\* C26 happens: a session has finished with no tool call recorded in either
\* of the last two steps, each of them left by its first decision.
C26_Witness ==
    /\ Active /\ last.op = "apply_decision" /\ last.decision = "workflow_complete"
    /\ advances = PipelineLength - 1
    /\ \A step \in LastTwoSteps : ~RecordedIn(step)
    /\ context.tool_calls # << >>

====
